---- MODULE Spec2Model ----
(***************************************************************************)
(* A model of jpoz/s3meta (src/s3.go, second (current) version of the      *)
(* package, lines 333-697): the request signer (authRequest,               *)
(* canonicalizedAmzHeaders), the retrying executor (authDoRequest) and the *)
(* shell operations built on them (Head/Get/Put/List).                     *)
(*                                                                         *)
(* Strings are sequences of byte values, so that lower-casing, header-key  *)
(* canonicalisation, sorting and concatenation are computed as the code    *)
(* computes them.  Time is a discrete clock.                               *)
(***************************************************************************)
EXTENDS Integers, Sequences, FiniteSets, TLC

VARIABLES
    \* ---- retry policy: the package-level variables of s3.go:353-357
    MaxAttempts, TotalAttemptTimeout, DelayBetweenAttempts,
    \* ---- one call of a shell operation
    op,          \* which shell operation is called: "HEAD", "GET", "PUT", "LIST"
    script,      \* what the network answers to the i-th dispatch of this call
    pc,          \* position of the call
    request,     \* the *http.Request of the call
    now,         \* the clock (time.Now())
    start,       \* authDoRequest: start
    timeout,     \* authDoRequest: timeout (the deadline)
    attempt,     \* authDoRequest: the loop counter
    resp, err,   \* authDoRequest: the named results
    dispatches,  \* history: number of http.DefaultClient.Do calls made
    sent,        \* history: the request as sent by each dispatch
    sleeps,      \* history: number of time.Sleep calls made
    slept,       \* history: total time slept
    lastDur,     \* history: duration of the last dispatch
    times,       \* history: when each dispatch began and ended (from, to), and
                 \*          whether it read the request body to its end (bodyRead)
    result,      \* what the shell operation returned, and whether it panicked
    \* ---- the signer alone, on two requests
    reqs,        \* 1..2 -> the request as built, before signing
    signed,      \* 1..2 -> the request after authRequest (as built, until then)
    signedAt,    \* 1..2 -> time at which authRequest ran on it, -1: not yet
    \* ---- a PUT with metadata, and the read of its headers
    meta,        \* the supplied map, the request the PUT sends, what is extracted
    \* ---- concurrent calls of authDoRequest on one Bucket
    bucket,      \* the Bucket the calls share (b *Bucket)
    calls        \* 1..2 -> the locals of one authDoRequest call

vars == << MaxAttempts, TotalAttemptTimeout, DelayBetweenAttempts, op, script, pc,
           request, now, start, timeout, attempt, resp, err, dispatches, sent,
           sleeps, slept, lastDur, times, result, reqs, signed, signedAt, meta,
           bucket, calls >>

policyVars == << MaxAttempts, TotalAttemptTimeout, DelayBetweenAttempts >>
callVars == << op, script, pc, request, now, start, timeout, attempt, resp, err,
               dispatches, sent, sleeps, slept, lastDur, times, result >>
signVars == << reqs, signed, signedAt >>
metaVars == << meta >>
concVars == << bucket, calls >>

----------------------------------------------------------------------------
(* Bounds of the model *)

\* largest value of MaxAttempts explored (0 is explored too)
AttemptsBound == 3
\* largest TotalAttemptTimeout explored, in clock ticks
TimeoutBound == 2
\* largest DelayBetweenAttempts explored, in clock ticks
DelayBound == 2
\* longest duration of one http.DefaultClient.Do, in clock ticks
DurBound == 2
\* most headers the caller adds to the two requests together before they are
\* signed (signer specification)
HeaderBound == 2
\* latest clock value at which the signer is run (signer specification)
SignTimeBound == 1

----------------------------------------------------------------------------
(* Byte strings *)

\* byte values of the characters the model writes
chNL == <<10>>
chColon == <<58>>
chSlash == <<47>>
chQuestion == <<63>>

sGET == <<71, 69, 84>>
sHEAD == <<72, 69, 65, 68>>
sPUT == <<80, 85, 84>>
sHTTP == <<104, 116, 116, 112, 58, 47, 47>>                 \* "http://"
sPrefixQ == <<63, 112, 114, 101, 102, 105, 120, 61>>        \* "?prefix="
sDate == <<68, 97, 116, 101>>                               \* "Date"
sContentType == <<67, 111, 110, 116, 101, 110, 116, 45, 84, 121, 112, 101>>
sTextPlain == <<116, 101, 120, 116, 47, 112, 108, 97, 105, 110>>
sHost == <<72, 111, 115, 116>>
sAuthorization == <<65, 117, 116, 104, 111, 114, 105, 122, 97, 116, 105, 111, 110>>
sAWS == <<65, 87, 83, 32>>                                  \* "AWS "
sXAmz == <<120, 45, 97, 109, 122, 45>>                      \* "x-amz-"
sXAmzMeta == <<120, 45, 97, 109, 122, 45, 109, 101, 116, 97, 45>>  \* "x-amz-meta-"

\* strings.ToLower on one byte
ToLowerByte(c) == IF c >= 65 /\ c <= 90 THEN c + 32 ELSE c

\* strings.ToLower
ToLower(s) == [i \in 1..Len(s) |-> ToLowerByte(s[i])]

\* strings.HasPrefix
HasPrefix(s, p) == Len(s) >= Len(p) /\ SubSeq(s, 1, Len(p)) = p

\* strings.TrimPrefix
TrimPrefix(s, p) == IF HasPrefix(s, p) THEN SubSeq(s, Len(p) + 1, Len(s)) ELSE s

\* byte-wise lexicographic order, the order of sort.Strings
RECURSIVE StrLess(_, _)
StrLess(a, b) ==
    IF Len(b) = 0 THEN FALSE
    ELSE IF Len(a) = 0 THEN TRUE
    ELSE IF a[1] # b[1] THEN a[1] < b[1]
    ELSE StrLess(Tail(a), Tail(b))

\* sort.Strings on a slice holding the distinct strings of S
RECURSIVE SortStrings(_)
SortStrings(S) ==
    IF S = {} THEN << >>
    ELSE LET m == CHOOSE x \in S : \A y \in S \ {x} : StrLess(x, y)
         IN  << m >> \o SortStrings(S \ {m})

\* strings.Join(parts, "")
RECURSIVE Join(_)
Join(parts) == IF Len(parts) = 0 THEN << >> ELSE Head(parts) \o Join(Tail(parts))

\* index of the first occurrence of byte c in s, Len(s)+1 when there is none
RECURSIVE IndexByte(_, _)
IndexByte(s, c) ==
    IF Len(s) = 0 THEN 1
    ELSE IF s[1] = c THEN 1
    ELSE 1 + IndexByte(Tail(s), c)

----------------------------------------------------------------------------
(* net/http's Header, as the code uses it: Add and Get canonicalise the key *)

\* the bytes net/textproto accepts in a header field name (token characters)
ValidHeaderFieldByte(c) ==
    \/ c >= 48 /\ c <= 57
    \/ c >= 65 /\ c <= 90
    \/ c >= 94 /\ c <= 122
    \/ c \in {33, 35, 36, 37, 38, 39, 42, 43, 45, 46, 124, 126}

\* textproto.CanonicalMIMEHeaderKey: first letter and letters after '-' upper
\* case, the others lower case; a key with an invalid byte is left unchanged
CanonicalMIMEHeaderKey(s) ==
    IF \E i \in 1..Len(s) : ~ValidHeaderFieldByte(s[i]) THEN s
    ELSE [i \in 1..Len(s) |->
            IF i = 1 \/ s[i - 1] = 45
            THEN (IF s[i] >= 97 /\ s[i] <= 122 THEN s[i] - 32 ELSE s[i])
            ELSE ToLowerByte(s[i])]

\* Header.Add(key, value): a header map is a function from keys to value lists
HeaderAdd(h, key, value) ==
    LET k == CanonicalMIMEHeaderKey(key)
    IN  [x \in DOMAIN h \cup {k} |->
            IF x = k
            THEN (IF k \in DOMAIN h THEN Append(h[k], value) ELSE << value >>)
            ELSE h[x]]

\* Header.Get(key): the first value stored under the canonical key, else ""
HeaderGet(h, key) ==
    LET k == CanonicalMIMEHeaderKey(key)
    IN  IF k \in DOMAIN h /\ Len(h[k]) > 0 THEN h[k][1] ELSE << >>

\* the empty header map of http.NewRequest
EmptyHeader == [x \in {} |-> << >>]

----------------------------------------------------------------------------
(* The bucket and the requests the shell operations build *)

\* the Bucket the calls are made on (Name, Base, Key, Secret): "b", "/", "K", "S"
b == [Name |-> <<98>>, Base |-> <<47>>, Key |-> <<75>>, Secret |-> <<83>>]

\* url.Parse of "http://" + host + path + "?" + query, as http.NewRequest does:
\* the host runs to the first "/" or "?", the path to the first "?"
ParseURL(full) ==
    LET rest  == TrimPrefix(full, sHTTP)
        q     == IndexByte(rest, 63)
        noq   == SubSeq(rest, 1, q - 1)
        p     == IndexByte(noq, 47)
    IN  [Host     |-> SubSeq(noq, 1, p - 1),
         Path     |-> SubSeq(noq, p, Len(noq)),
         RawQuery |-> SubSeq(rest, q + 1, Len(rest))]

\* http.NewRequest(method, fullPath, nil)
NewRequest(method, fullPath) ==
    [Method |-> method, URL |-> ParseURL(fullPath), Header |-> EmptyHeader,
     Body |-> << >>, ContentLength |-> 0]

\* URL.RequestURI(): the path ("/" when empty), then "?" and the query if any
RequestURI(url) ==
    (IF Len(url.Path) = 0 THEN chSlash ELSE url.Path)
        \o (IF Len(url.RawQuery) = 0 THEN << >> ELSE chQuestion \o url.RawQuery)

\* HeadS3ObjectResponse, lines 376-377
HeadRequest(key) == NewRequest(sHEAD, Join(<< sHTTP, b.Name, b.Base, key >>))

\* GetS3ObjectResponse, lines 433-434
GetRequest(key) == NewRequest(sGET, Join(<< sHTTP, b.Name, b.Base, key >>))

\* ListS3BucketObjectsResponse, lines 487-488
ListRequest(prefix) ==
    NewRequest(sGET, Join(<< sHTTP, b.Name, b.Base, sPrefixQ, prefix >>))

\* PutS3ObjectMetaDataResponse, lines 570-583: data is a function from metadata
\* keys to values; the headers are added in the order `order` (Go ranges over
\* the map in an unspecified order); PutS3ObjectResponse is the case of no data
PutRequest(key, body, data, order) ==
    LET r0 == NewRequest(sPUT, Join(<< sHTTP, b.Name, b.Base, key >>))
        h0 == HeaderAdd(r0.Header, sContentType, sTextPlain)
        AddAll[i \in 0..Len(order)] ==
            IF i = 0 THEN h0
            ELSE HeaderAdd(AddAll[i - 1], sXAmzMeta \o order[i], data[order[i]])
    IN  [r0 EXCEPT !.Header = AddAll[Len(order)], !.Body = body,
                   !.ContentLength = Len(body)]

----------------------------------------------------------------------------
(* The signer *)

\* time.Now().UTC().Format(time.RFC1123Z) at clock value t
FormatRFC1123Z(t) == << 84, 48 + t >>

\* hmac.New(sha1.New, secret), Write(msg), Sum, base64: a fixed injective
\* function of the key and the message
HmacSha1Base64(secret, msg) == << 0 >> \o secret \o << 0 >> \o msg

\* mutant: the prefix is tested on the key as stored, not on its lower-cased form
AmzKeys_CaseSensitive(headers) ==
    SortStrings({ k \in DOMAIN headers : HasPrefix(k, sXAmz) })

\* canonicalizedAmzHeaders, lines 666-674: the keys whose lower-cased form
\* starts with x-amz-, as stored in the map, sorted by sort.Strings
AmzKeys(headers) ==
    SortStrings({ k \in DOMAIN headers : HasPrefix(ToLower(k), sXAmz) })

\* canonicalizedAmzHeaders, lines 675-681: one line per key
RECURSIVE AmzLines(_, _)
AmzLines(headers, keys) ==
    IF Len(keys) = 0 THEN << >>
    ELSE Join(<< ToLower(Head(keys)), chColon, HeaderGet(headers, Head(keys)), chNL >>)
            \o AmzLines(headers, Tail(keys))

canonicalizedAmzHeaders(headers) == AmzLines(headers, AmzKeys(headers))

\* mutant: the Date header is always set to the time of signing
WithDate_Overwrite(header, t) ==
    [x \in DOMAIN header \cup {sDate} |->
        IF x = sDate THEN << FormatRFC1123Z(t) >> ELSE header[x]]

\* authRequest, lines 629-632: Date is added only when Get("Date") is empty
WithDate(header, t) ==
    IF HeaderGet(header, sDate) = << >>
    THEN HeaderAdd(header, sDate, FormatRFC1123Z(t))
    ELSE header

\* the canonicalized resource, were the query string left in the URL
canonicalizedResource_WithQuery(bk, url) ==
    Join(<< chSlash, bk.Name, RequestURI(url) >>)

\* authRequest, lines 634-643
canonicalizedResource(bk, url) ==
    Join(<< chSlash, bk.Name, RequestURI([url EXCEPT !.RawQuery = << >>]) >>)

\* authRequest, lines 645-651
stringToSign(bk, r, header) ==
    Join(<< r.Method, chNL, chNL,
            HeaderGet(header, sContentType), chNL,
            HeaderGet(header, sDate), chNL,
            canonicalizedAmzHeaders(header),
            canonicalizedResource(bk, r.URL) >>)

\* authRequest, lines 653-656
signature(bk, r, header) == HmacSha1Base64(bk.Secret, stringToSign(bk, r, header))

\* authRequest, were the query string cleared on the request's own URL and not
\* on the copy of line 634
authRequest_ClearsQuery(bk, r, t) ==
    LET h1 == WithDate(r.Header, t)
        h2 == HeaderAdd(h1, sHost, Join(<< sHTTP, bk.Name, bk.Base >>))
        h3 == HeaderAdd(h2, sAuthorization,
                        Join(<< sAWS, bk.Key, chColon, signature(bk, r, h1) >>))
    IN  [r EXCEPT !.Header = h3, !.URL.RawQuery = << >>]

\* authRequest, lines 628-662: the request after signing at clock value t
authRequest(bk, r, t) ==
    LET h1 == WithDate(r.Header, t)
        h2 == HeaderAdd(h1, sHost, Join(<< sHTTP, bk.Name, bk.Base >>))
        h3 == HeaderAdd(h2, sAuthorization,
                        Join(<< sAWS, bk.Key, chColon, signature(bk, r, h1) >>))
    IN  [r EXCEPT !.Header = h3]

----------------------------------------------------------------------------
(* The network and the responses *)

\* what one dispatch can end in: a transport error, or a response with a status
Outcomes == {"fail", "200", "404", "500"}

\* the shell operations
Ops == {"HEAD", "GET", "PUT", "LIST"}

\* a nil *http.Response
NilResp == [nil |-> TRUE, StatusCode |-> 0, Status |-> "", Body |-> ""]

\* a nil error
NoErr == [kind |-> "nil", text |-> << >>, attempt |-> 0]

\* the error http.DefaultClient.Do returns on the i-th dispatch
TransportErr(i) == [kind |-> "transport", text |-> << >>, attempt |-> i]

\* errors.New(text), text given as the strings concatenated
NewError(text) == [kind |-> "status", text |-> text, attempt |-> 0]

\* the response of the service to operation o that carries status st
Response(o, st) ==
    [nil        |-> FALSE,
     StatusCode |-> IF st = "200" THEN 200 ELSE IF st = "404" THEN 404 ELSE 500,
     Status     |-> IF st = "200" THEN "200 OK"
                    ELSE IF st = "404" THEN "404 Not Found"
                    ELSE "500 Internal Server Error",
     Body       |-> IF o = "HEAD" THEN ""
                    ELSE IF st = "404" THEN "Not Found"
                    ELSE IF st = "500" THEN "Internal Error"
                    ELSE IF o = "GET" THEN "sacks"
                    ELSE IF o = "LIST" THEN "<ListBucketResult/>"
                    ELSE ""]

\* the answer of the test server's S3GetHandler to a GET of a key that holds
\* val: 404 when empty, a redirect to an invalid URL (which makes Do fail)
\* when "FAIL", else 200 with the value
S3GetHandler(val) ==
    IF val = "" THEN "404" ELSE IF val = "FAIL" THEN "fail" ELSE "200"

\* TestRetrys: what FakeS3 may hold for the key at clock value t, when it held
\* `initial` at the start and the test's goroutine stores "sacks" after
\* sleeping as long as one DelayBetweenAttempts (200ms); at that very instant
\* the handler may see either value
FakeS3At(initial, t) ==
    IF t < DelayBetweenAttempts THEN {initial}
    ELSE IF t = DelayBetweenAttempts THEN {initial, "sacks"}
    ELSE {"sacks"}

\* http.DefaultClient.Do on the i-th dispatch, the network answering `out`:
\* the pair (resp, err)
ClientDo(o, out, i) ==
    IF out = "fail" THEN << NilResp, TransportErr(i) >>
    ELSE << Response(o, out), NoErr >>

\* what the network answers to the i-th dispatch
ScriptAt(i) == IF i \in DOMAIN script THEN script[i] ELSE "fail"

----------------------------------------------------------------------------
(* authDoRequest, lines 608-625 *)

\* mutant: the loop runs one time too many
LoopCond_OffByOne(a) == a <= MaxAttempts + 1

\* mutant: a failed dispatch is never retried
LoopCond_NoRetry(a) == a <= 1 /\ a <= MaxAttempts

\* line 613: the loop condition
LoopCond(a) == a <= MaxAttempts

\* mutant: the break on success is missing
DoSucceeded_NoBreak(e) == FALSE

\* line 615: err == nil
DoSucceeded(e) == e = NoErr

\* mutant: the deadline itself already counts as passed
DeadlinePassed_AtDeadline(t, deadline) == t >= deadline

\* mutant: the deadline test is missing
DeadlinePassed_Never(t, deadline) == FALSE

\* line 618: time.Now().After(timeout)
DeadlinePassed(t, deadline) == t > deadline

\* line 621: the argument of time.Sleep
SleepTime == DelayBetweenAttempts

----------------------------------------------------------------------------
(* The shell operations, from the return of authDoRequest on *)

NotReturned ==
    [returned |-> FALSE, panicked |-> FALSE, found |-> FALSE, str |-> "", err |-> NoErr]

\* the operation returned (found, str, err)
Returned(found, str, e) ==
    [returned |-> TRUE, panicked |-> FALSE, found |-> found, str |-> str, err |-> e]

\* resp.Body dereferences a nil *http.Response: the goroutine panics
Panicked ==
    [returned |-> FALSE, panicked |-> TRUE, found |-> FALSE, str |-> "", err |-> NoErr]

\* mutant: 404 is not told apart from the other statuses
HeadS3ObjectResult_404IsError(r, e) ==
    IF e # NoErr THEN Returned(FALSE, "", e)
    ELSE IF r.nil THEN Panicked
    ELSE IF r.StatusCode # 200 THEN Returned(FALSE, "", NewError(<< r.Status >>))
    ELSE Returned(TRUE, "", NoErr)

\* HeadS3Object, lines 387-407
HeadS3ObjectResult(r, e) ==
    IF e # NoErr THEN Returned(FALSE, "", e)
    ELSE IF r.nil THEN Panicked
    ELSE IF r.StatusCode = 404 THEN Returned(FALSE, "", NoErr)
    ELSE IF r.StatusCode # 200 THEN Returned(FALSE, "", NewError(<< r.Status >>))
    ELSE Returned(TRUE, "", NoErr)

\* mutant: the body is returned whatever the status
GetS3ObjectResult_NoStatusTest(r, e) ==
    IF e # NoErr THEN Returned(FALSE, "", e)
    ELSE IF r.nil THEN Panicked
    ELSE Returned(FALSE, r.Body, NoErr)

\* GetS3Object, lines 444-461
GetS3ObjectResult(r, e) ==
    IF e # NoErr THEN Returned(FALSE, "", e)
    ELSE IF r.nil THEN Panicked
    ELSE IF r.StatusCode # 200 THEN Returned(FALSE, "", NewError(<< r.Body >>))
    ELSE Returned(FALSE, r.Body, NoErr)

\* mutant: only 404 is an error
PutS3ObjectResult_Only404(r, e) ==
    IF e # NoErr THEN Returned(FALSE, "", e)
    ELSE IF r.nil THEN Panicked
    ELSE IF r.StatusCode = 404 THEN Returned(FALSE, "", NewError(<< r.Status, r.Body >>))
    ELSE Returned(FALSE, "", NoErr)

\* PutS3Object, lines 550-567
PutS3ObjectResult(r, e) ==
    IF e # NoErr THEN Returned(FALSE, "", e)
    ELSE IF r.nil THEN Panicked
    ELSE IF r.StatusCode # 200 THEN Returned(FALSE, "", NewError(<< r.Status, r.Body >>))
    ELSE Returned(FALSE, "", NoErr)

\* ListS3BucketObjects, lines 507-532; the listing is returned as the body text
ListS3BucketObjectsResult(r, e) ==
    IF e # NoErr THEN Returned(FALSE, "", e)
    ELSE IF r.nil THEN Panicked
    ELSE IF r.StatusCode # 200 THEN Returned(FALSE, "", NewError(<< r.Body >>))
    ELSE Returned(FALSE, r.Body, NoErr)

\* the key, the prefix and the body the modelled call uses: "k", "p", "v"
BuildRequest(o) ==
    IF o = "HEAD" THEN HeadRequest(<< 107 >>)
    ELSE IF o = "GET" THEN GetRequest(<< 107 >>)
    ELSE IF o = "LIST" THEN ListRequest(<< 112 >>)
    ELSE PutRequest(<< 107 >>, << 118 >>, [x \in {} |-> << >>], << >>)

----------------------------------------------------------------------------
(* The call: a shell operation from its start to its return *)

\* no PUT with metadata is under way
MetaIdle == meta = [stage |-> "off"]

\* no concurrent calls are under way
ConcIdle ==
    /\ bucket = b
    /\ calls = << >>

SignIdle ==
    /\ reqs = << >>
    /\ signed = << >>
    /\ signedAt = << >>

Init ==
    /\ MaxAttempts \in 0..AttemptsBound
    /\ TotalAttemptTimeout \in 0..TimeoutBound
    /\ DelayBetweenAttempts \in 0..DelayBound
    /\ op \in Ops
    /\ script \in [1..MaxAttempts -> Outcomes]
    /\ pc = "idle"
    /\ request = BuildRequest(op)
    /\ now = 0
    /\ start = 0
    /\ timeout = 0
    /\ attempt = 0
    /\ resp = NilResp
    /\ err = NoErr
    /\ dispatches = 0
    /\ sent = << >>
    /\ sleeps = 0
    /\ slept = 0
    /\ lastDur = 0
    /\ times = << >>
    /\ result = NotReturned
    /\ SignIdle
    /\ MetaIdle
    /\ ConcIdle

\* the request an attempt dispatches, were it signed anew for each attempt
requestToDo_SignedAnew(r, t) == authRequest(b, r, t)

\* the request an attempt dispatches, were its body set anew for each attempt
requestToDo_BodyReset(r, t) == [r EXCEPT !.Body = BuildRequest(op).Body]

\* the request an attempt at clock value t dispatches: line 614 hands the
\* request object of the call, as it then is, to http.DefaultClient.Do
requestToDo(r, t) == r

\* the shell operation has built its request and calls authDoRequest: lines
\* 609-613, the signing, start, timeout and the first test of the loop condition
authDoRequestBegin ==
    /\ pc = "idle"
    /\ request' = authRequest(b, request, now)
    /\ start' = now
    /\ timeout' = now + TotalAttemptTimeout
    /\ attempt' = 1
    /\ pc' = IF LoopCond(1) THEN "dispatch" ELSE "return"
    /\ UNCHANGED << policyVars, op, script, now, resp, err, dispatches, sent, sleeps,
                    slept, lastDur, times, result, signVars, metaVars, concVars >>

\* lines 614-620: one http.DefaultClient.Do, which takes d ticks and may read
\* the request body, then the two tests that leave the loop
Dispatch ==
    /\ pc = "dispatch"
    /\ \E d \in 0..DurBound, bodyRead \in BOOLEAN :
        LET out == ClientDo(op, ScriptAt(attempt), attempt)
        IN  /\ (ScriptAt(attempt) # "fail" \/ Len(request.Body) = 0) => bodyRead
            /\ resp' = out[1]
            /\ err' = out[2]
            /\ now' = now + d
            /\ lastDur' = d
            /\ dispatches' = dispatches + 1
            /\ sent' = Append(sent, requestToDo(request, now))
            /\ request' = IF bodyRead
                          THEN [requestToDo(request, now) EXCEPT !.Body = << >>]
                          ELSE requestToDo(request, now)
            /\ times' = Append(times, [from |-> now, to |-> now + d,
                                       bodyRead |-> bodyRead])
            /\ pc' = IF DoSucceeded(out[2]) THEN "return"
                     ELSE IF DeadlinePassed(now + d, timeout) THEN "return"
                     ELSE "sleep"
    /\ UNCHANGED << policyVars, op, script, start, timeout, attempt, sleeps, slept,
                    result, signVars, metaVars, concVars >>

\* lines 621 and 613: time.Sleep, attempt++, and the test of the loop condition
Sleep ==
    /\ pc = "sleep"
    /\ now' = now + SleepTime
    /\ sleeps' = sleeps + 1
    /\ slept' = slept + SleepTime
    /\ attempt' = attempt + 1
    /\ pc' = IF LoopCond(attempt + 1) THEN "dispatch" ELSE "return"
    /\ UNCHANGED << policyVars, op, script, request, start, timeout, resp, err,
                    dispatches, sent, lastDur, times, result, signVars, metaVars, concVars >>

\* authDoRequest has returned (resp, err): the rest of the shell operation
ShellReturn(o, res) ==
    /\ pc = "return"
    /\ op = o
    /\ result' = res
    /\ pc' = "done"
    /\ UNCHANGED << policyVars, op, script, request, now, start, timeout, attempt,
                    resp, err, dispatches, sent, sleeps, slept, lastDur, times,
                    signVars, metaVars, concVars >>

HeadS3Object == ShellReturn("HEAD", HeadS3ObjectResult(resp, err))

GetS3Object == ShellReturn("GET", GetS3ObjectResult(resp, err))

PutS3Object == ShellReturn("PUT", PutS3ObjectResult(resp, err))

ListS3BucketObjects == ShellReturn("LIST", ListS3BucketObjectsResult(resp, err))

Next ==
    \/ authDoRequestBegin
    \/ Dispatch
    \/ Sleep
    \/ HeadS3Object
    \/ GetS3Object
    \/ PutS3Object
    \/ ListS3BucketObjects

Spec == Init /\ [][Next]_vars

----------------------------------------------------------------------------
(* Properties of the call *)

\* authDoRequest has returned
Returning == pc \in {"return", "done"}

\* the network fails every dispatch of the call
AlwaysFails == \A i \in DOMAIN script : script[i] = "fail"

\* the network fails the first k dispatches and answers the next one
FailsThenSucceeds(k) ==
    /\ k < MaxAttempts
    /\ \A i \in 1..k : script[i] = "fail"
    /\ script[k + 1] # "fail"

\* C1: the first dispatch that returns no error ends the call: no dispatch is
\* made after it, whatever the clock says, and authDoRequest returns that
\* dispatch's response with a nil error.
C1_FirstSuccessEndsCall ==
    /\ \A i \in 1..(dispatches - 1) : ScriptAt(i) = "fail"
    /\ (dispatches >= 1 /\ ScriptAt(dispatches) # "fail") =>
          /\ Returning
          /\ attempt = dispatches
          /\ resp = Response(op, ScriptAt(dispatches))
          /\ err = NoErr

\* a call that succeeded on its second dispatch, after the deadline had passed
C1_Witness ==
    /\ pc = "done"
    /\ dispatches = 2
    /\ MaxAttempts > 2
    /\ ScriptAt(2) = "200"
    /\ now > timeout
    /\ err = NoErr
    /\ resp = Response(op, "200")

\* C2: when every dispatch fails, authDoRequest returns after at most
\* MaxAttempts dispatches, and the error it returns is the one of the last
\* dispatch it made, not nil and not an earlier one.
C2_ExhaustionReturnsLastError ==
    /\ dispatches <= MaxAttempts
    /\ (Returning /\ AlwaysFails /\ dispatches >= 1) =>
          /\ err = TransportErr(dispatches)
          /\ err # NoErr
          /\ \A i \in 1..(dispatches - 1) : err # TransportErr(i)

\* a call that made MaxAttempts = 3 failing dispatches and returned the third error
C2_Witness ==
    /\ pc = "done"
    /\ AlwaysFails
    /\ MaxAttempts = 3
    /\ dispatches = 3
    /\ result.err = TransportErr(3)

\* C3 as stated: when the first k < MaxAttempts dispatches fail and the next
\* one succeeds, authDoRequest returns the success response with a nil error
\* after sleeping k * DelayBetweenAttempts in total.
C3_RetryThenSuccess_Original ==
    \A k \in 0..AttemptsBound :
        (Returning /\ FailsThenSucceeds(k)) =>
            /\ err = NoErr
            /\ resp = Response(op, script[k + 1])
            /\ slept = k * DelayBetweenAttempts

\* C3 (amended): when the first k < MaxAttempts dispatches fail and the next
\* one succeeds, then either none of the k failed dispatches ended after the
\* deadline and authDoRequest returns the success response of dispatch k+1
\* with a nil error after k sleeps of DelayBetweenAttempts, or failed dispatch
\* j <= k ended after the deadline and authDoRequest returns its error after
\* j-1 sleeps without dispatching again.
C3_RetryThenSuccess ==
    \A k \in 0..AttemptsBound :
        (Returning /\ FailsThenSucceeds(k)) =>
            \/ /\ dispatches = k + 1
               /\ \A i \in 1..k : times[i].to <= timeout
               /\ err = NoErr
               /\ resp = Response(op, script[k + 1])
               /\ sleeps = k
               /\ slept = k * DelayBetweenAttempts
            \/ /\ dispatches <= k
               /\ \A i \in 1..(dispatches - 1) : times[i].to <= timeout
               /\ times[dispatches].to > timeout
               /\ err = TransportErr(dispatches)
               /\ sleeps = dispatches - 1
               /\ slept = (dispatches - 1) * DelayBetweenAttempts

\* two failures, then a success within the deadline, after two sleeps
C3_Witness ==
    /\ pc = "done"
    /\ FailsThenSucceeds(2)
    /\ DelayBetweenAttempts > 0
    /\ dispatches = 3
    /\ err = NoErr
    /\ slept = 2 * DelayBetweenAttempts
    /\ now <= timeout

\* C4: the deadline is start + TotalAttemptTimeout, set once; when every
\* dispatch fails, authDoRequest returns no later than the deadline plus one
\* DelayBetweenAttempts plus the duration of one (the last) dispatch.
C4_BoundedOvershoot ==
    /\ pc # "idle" => (start = 0 /\ timeout = start + TotalAttemptTimeout)
    /\ (Returning /\ AlwaysFails) =>
          now <= start + TotalAttemptTimeout + DelayBetweenAttempts + lastDur

\* a failing call that returned exactly at the bound, after a real overshoot
C4_Witness ==
    /\ pc = "done"
    /\ AlwaysFails
    /\ dispatches >= 2
    /\ DelayBetweenAttempts > 0
    /\ lastDur > 0
    /\ now = start + TotalAttemptTimeout + DelayBetweenAttempts + lastDur

ServerConsistent(initial) ==
    \A i \in 1..dispatches :
        \E t \in times[i].from..times[i].to :
            ScriptAt(i) \in { S3GetHandler(v) : v \in FakeS3At(initial, t) }

\* the status of the response the shell operation was handed
LastStatus == ScriptAt(dispatches)

C8_NeverAborts ==
    /\ ~result.panicked
    /\ pc = "done" => result.returned

----------------------------------------------------------------------------
(* The signer alone: two requests are built, given headers and signed *)

\* the requests the signer is run on: GET of key "k", the listings of the
\* prefixes "p" and "q", PUT of "v" to key "k"
SignRequests ==
    { GetRequest(<< 107 >>), ListRequest(<< 112 >>), ListRequest(<< 113 >>),
      PutRequest(<< 107 >>, << 118 >>, [x \in {} |-> << >>], << >>) }

\* the header names the caller adds, as the caller spells them:
\* "x-amz-a", "X-Amz-A", "x-amz-_", "Date"
HeaderNames ==
    { << 120, 45, 97, 109, 122, 45, 97 >>, << 88, 45, 65, 109, 122, 45, 65 >>,
      << 120, 45, 97, 109, 122, 45, 95 >>, sDate }

\* the header values the caller adds: "1", "2"
HeaderValues == { << 49 >>, << 50 >> }

\* number of header values the caller added (Content-Type is set by the
\* shell operation itself)
RECURSIVE CountValues(_, _)
CountValues(h, keys) ==
    IF keys = {} THEN 0
    ELSE LET k == CHOOSE x \in keys : TRUE
         IN  Len(h[k]) + CountValues(h, keys \ {k})

HeaderCount(h) == CountValues(h, DOMAIN h \ {sContentType})

CallIdle ==
    /\ MaxAttempts = 0
    /\ TotalAttemptTimeout = 0
    /\ DelayBetweenAttempts = 0
    /\ op = "GET"
    /\ script = << >>
    /\ pc = "off"
    /\ request = BuildRequest("GET")
    /\ now = 0
    /\ start = 0
    /\ timeout = 0
    /\ attempt = 0
    /\ resp = NilResp
    /\ err = NoErr
    /\ dispatches = 0
    /\ sent = << >>
    /\ sleeps = 0
    /\ slept = 0
    /\ lastDur = 0
    /\ times = << >>
    /\ result = NotReturned

InitSign ==
    /\ CallIdle
    /\ MetaIdle
    /\ ConcIdle
    /\ reqs \in [1..2 -> SignRequests]
    /\ signed = reqs
    /\ signedAt = [i \in 1..2 |-> -1]

\* the caller adds a header to request i with Header.Add, before it is signed
AddHeader(i) ==
    /\ signedAt[i] = -1
    /\ HeaderCount(reqs[1].Header) + HeaderCount(reqs[2].Header) < HeaderBound
    /\ \E name \in HeaderNames, value \in HeaderValues :
          /\ reqs' = [reqs EXCEPT ![i].Header = HeaderAdd(@, name, value)]
          /\ signed' = [signed EXCEPT ![i].Header = HeaderAdd(@, name, value)]
    /\ UNCHANGED << signedAt, policyVars, callVars, metaVars, concVars >>

\* authRequest runs on request i at clock value t
SignRequest(i) ==
    /\ signedAt[i] = -1
    /\ \E t \in 0..SignTimeBound :
          /\ signed' = [signed EXCEPT ![i] = authRequest(b, reqs[i], t)]
          /\ signedAt' = [signedAt EXCEPT ![i] = t]
    /\ UNCHANGED << reqs, policyVars, callVars, metaVars, concVars >>

NextSign ==
    \/ \E i \in 1..2 : AddHeader(i)
    \/ \E i \in 1..2 : SignRequest(i)

SpecSign == InitSign /\ [][NextSign]_vars

----------------------------------------------------------------------------
(* Properties of the signer *)

\* the Authorization value request i carries after signing
Authorization(i) == HeaderGet(signed[i].Header, sAuthorization)

\* both requests have been signed
BothSigned == signedAt[1] >= 0 /\ signedAt[2] >= 0

\* the two requests have the same method, headers (a Date among them) and path
SameSigningInputs ==
    /\ reqs[1].Method = reqs[2].Method
    /\ reqs[1].Header = reqs[2].Header
    /\ HeaderGet(reqs[1].Header, sDate) # << >>
    /\ reqs[1].URL.Path = reqs[2].URL.Path

\* C9: two requests with the same method, headers (Date included) and path,
\* signed with the same secret, carry the same Authorization value, whenever
\* each is signed and whatever else (query string, body) they differ in.
C9_SigningDeterministic ==
    (BothSigned /\ SameSigningInputs) => Authorization(1) = Authorization(2)

\* two listings with different prefixes and the same Date, signed at different
\* times, carry the same Authorization value
C9_Witness ==
    /\ BothSigned
    /\ SameSigningInputs
    /\ signedAt[1] # signedAt[2]
    /\ reqs[1].URL.RawQuery # reqs[2].URL.RawQuery
    /\ Authorization(1) = Authorization(2)
    /\ Authorization(1) # << >>

\* a header map with its names lower-cased
LowerCased(h) == { << ToLower(k), h[k] >> : k \in DOMAIN h }

\* the names canonicalizedAmzHeaders emits for h, in the order of its lines
EmittedNames(h) == [j \in 1..Len(AmzKeys(h)) |-> ToLower(AmzKeys(h)[j])]

\* C10: two header maps that are equal once their names are lower-cased get
\* the same canonical header block, and in every block each lower-cased
\* x-amz- name appears once, the names in ascending order of their lower-cased
\* form.
C10_CanonicalBlockSorted ==
    /\ LowerCased(reqs[1].Header) = LowerCased(reqs[2].Header) =>
          canonicalizedAmzHeaders(reqs[1].Header) = canonicalizedAmzHeaders(reqs[2].Header)
    /\ \A i \in 1..2 :
          LET names == EmittedNames(reqs[i].Header)
          IN  \A x, y \in 1..Len(names) : x < y => StrLess(names[x], names[y])

\* the keys of h whose lower-cased form starts with x-amz-
AmzNamed(h) == { k \in DOMAIN h : HasPrefix(ToLower(k), sXAmz) }

\* number of occurrences of byte c in s
RECURSIVE CountByte(_, _)
CountByte(s, c) ==
    IF Len(s) = 0 THEN 0
    ELSE (IF s[1] = c THEN 1 ELSE 0) + CountByte(Tail(s), c)

\* sub occurs in s
Contains(s, sub) ==
    \E p \in 1..(Len(s) - Len(sub) + 1) : SubSeq(s, p, p + Len(sub) - 1) = sub

\* the line canonicalizedAmzHeaders writes for key k of h, up to its value
LineStart(k) == ToLower(k) \o chColon

\* C11: canonicalizedAmzHeaders writes a line for a header exactly when its
\* lower-cased name starts with x-amz-, one line per such header; without such
\* a header the block is empty, and the signed string then has exactly one
\* newline between the Date value and the canonicalized resource.
C11_OnlyAmzHeadersEmitted ==
    \A i \in 1..2 :
        LET h     == reqs[i].Header
            block == canonicalizedAmzHeaders(h)
        IN  /\ \A k \in DOMAIN h :
                  Contains(block, LineStart(k) \o HeaderGet(h, k) \o chNL)
                      <=> HasPrefix(ToLower(k), sXAmz)
            /\ \A k \in DOMAIN h \ AmzNamed(h) : ~Contains(block, LineStart(k))
            /\ CountByte(block, 10) = Cardinality(AmzNamed(h))
            /\ AmzNamed(h) = {} => block = << >>
            /\ (AmzNamed(h) = {} /\ signedAt[i] >= 0) =>
                  Authorization(i) =
                      Join(<< sAWS, b.Key, chColon,
                              HmacSha1Base64(b.Secret,
                                  Join(<< reqs[i].Method, chNL, chNL,
                                          HeaderGet(signed[i].Header, sContentType), chNL,
                                          HeaderGet(signed[i].Header, sDate), chNL,
                                          chSlash, b.Name, reqs[i].URL.Path >>)) >>)

\* a signed request whose only header before signing was a Date, beside one
\* that carries an x-amz- header
C11_Witness ==
    /\ signedAt[1] >= 0
    /\ DOMAIN reqs[1].Header = {sDate}
    /\ canonicalizedAmzHeaders(reqs[1].Header) = << >>
    /\ Cardinality(AmzNamed(reqs[2].Header)) = 1
    /\ CountByte(canonicalizedAmzHeaders(reqs[2].Header), 10) = 1

----------------------------------------------------------------------------
(* A PUT with metadata, and the extraction of the metadata from its headers *)

\* largest number of entries of the metadata map supplied
MetaBound == 2

\* the metadata keys a caller supplies: "a", "A", "b", ""
MetaKeys == { << 97 >>, << 65 >>, << 98 >>, << >> }

\* the metadata maps a caller supplies
MetaMaps ==
    UNION { [ks -> HeaderValues] :
                ks \in { s \in SUBSET MetaKeys : Cardinality(s) <= MetaBound } }

\* the orders in which a range over a map with key set S can visit its keys
RangeOrders(S) ==
    { s \in [1..Cardinality(S) -> S] :
          \A i, j \in 1..Cardinality(S) : i # j => s[i] # s[j] }

NoMetaData == [x \in {} |-> << >>]

\* extractMetaDataFrom without the strings.TrimPrefix of line 690
extractMetaDataFrom_NoTrim(headers, order) ==
    LET data[i \in 0..Len(order)] ==
            IF i = 0 THEN NoMetaData
            ELSE LET k == order[i]
                     k_lower == ToLower(k)
                 IN  IF HasPrefix(k_lower, sXAmzMeta)
                     THEN (k_lower :> HeaderGet(headers, k)) @@ data[i - 1]
                     ELSE data[i - 1]
    IN  data[Len(order)]

\* extractMetaDataFrom, lines 684-696; order is the order in which the range
\* of line 687 visits the header names
extractMetaDataFrom(headers, order) ==
    LET data[i \in 0..Len(order)] ==
            IF i = 0 THEN NoMetaData
            ELSE LET k == order[i]
                     k_lower == ToLower(k)
                 IN  IF HasPrefix(k_lower, sXAmzMeta)
                     THEN (TrimPrefix(k_lower, sXAmzMeta) :> HeaderGet(headers, k))
                              @@ data[i - 1]
                     ELSE data[i - 1]
    IN  data[Len(order)]

InitMeta ==
    /\ CallIdle
    /\ SignIdle
    /\ ConcIdle
    /\ \E data \in MetaMaps :
          meta = [stage |-> "supplied", data |-> data,
                  request |-> BuildRequest("PUT"), extracted |-> NoMetaData]

\* PutS3ObjectMetaDataResponse builds the request (lines 570-583, the range of
\* line 578 visiting the map in some order) and authDoRequest signs it
PutS3ObjectMetaData ==
    /\ meta.stage = "supplied"
    /\ \E order \in RangeOrders(DOMAIN meta.data) :
          meta' = [meta EXCEPT
                      !.stage = "sent",
                      !.request = authRequest(b, PutRequest(<< 107 >>, << 118 >>,
                                                           meta.data, order), 0)]
    /\ UNCHANGED << policyVars, callVars, signVars, concVars >>

\* the headers of the PUT are read with extractMetaDataFrom
ReadMetaData ==
    /\ meta.stage = "sent"
    /\ \E order \in RangeOrders(DOMAIN meta.request.Header) :
          meta' = [meta EXCEPT
                      !.stage = "extracted",
                      !.extracted = extractMetaDataFrom(meta.request.Header, order)]
    /\ UNCHANGED << policyVars, callVars, signVars, concVars >>

NextMeta ==
    \/ PutS3ObjectMetaData
    \/ ReadMetaData

SpecMeta == InitMeta /\ [][NextMeta]_vars

----------------------------------------------------------------------------
(* Properties of the metadata round trip *)

\* the metadata has been put and read back
Extracted == meta.stage = "extracted"

\* no key of the supplied map contains an upper-case letter
LowerCaseKeys == \A k \in DOMAIN meta.data : ToLower(k) = k

\* C12 as stated: for any metadata map, extraction from the headers of the PUT
\* returns the mapping that was supplied, one entry per supplied key.
C12_MetaDataRoundTrip_Original ==
    Extracted => meta.extracted = meta.data

\* C12: extraction from the headers of the PUT returns one entry per
\* lower-cased supplied key; when no supplied key contains an upper-case
\* letter it returns the mapping that was supplied, one entry per supplied key.
C12_MetaDataRoundTrip ==
    Extracted =>
        /\ DOMAIN meta.extracted = { ToLower(k) : k \in DOMAIN meta.data }
        /\ LowerCaseKeys =>
              /\ meta.extracted = meta.data
              /\ Cardinality(DOMAIN meta.extracted) = Cardinality(DOMAIN meta.data)

\* a map of two lower-case keys with different values has been put and read back
C12_Witness ==
    /\ Extracted
    /\ LowerCaseKeys
    /\ DOMAIN meta.data = { << 97 >>, << 98 >> }
    /\ meta.data[<< 97 >>] # meta.data[<< 98 >>]
    /\ meta.extracted = meta.data

----------------------------------------------------------------------------
(* Concurrent calls of authDoRequest on one Bucket *)

\* largest clock value reached while the concurrent calls run
ConcClockBound == 2

\* the calls running concurrently
Callers == 1..2

\* what a dispatch of a concurrent call ends in
ConcOutcomes == {"fail", "200"}

\* a call that has not started: its locals have their zero values
IdleCall ==
    [pc |-> "idle", request |-> BuildRequest("GET"), start |-> 0, timeout |-> 0,
     attempt |-> 0, wake |-> 0, resp |-> NilResp, err |-> NoErr,
     outs |-> << >>, reads |-> << >>]

InitConc ==
    /\ MaxAttempts \in 0..AttemptsBound
    /\ TotalAttemptTimeout \in 0..TimeoutBound
    /\ DelayBetweenAttempts \in 0..DelayBound
    /\ op = "GET"
    /\ script = << >>
    /\ pc = "off"
    /\ request = BuildRequest("GET")
    /\ now = 0
    /\ start = 0
    /\ timeout = 0
    /\ attempt = 0
    /\ resp = NilResp
    /\ err = NoErr
    /\ dispatches = 0
    /\ sent = << >>
    /\ sleeps = 0
    /\ slept = 0
    /\ lastDur = 0
    /\ times = << >>
    /\ result = NotReturned
    /\ SignIdle
    /\ MetaIdle
    /\ bucket = b
    /\ calls = [i \in Callers |-> IdleCall]

concFrame == << op, script, pc, request, start, timeout, attempt, resp, err,
                dispatches, sent, sleeps, slept, lastDur, times, result,
                signVars, metaVars >>

\* the loop counter as call i of c increments it (attempt++ of line 613),
\* were the counter one variable shared by all calls
attemptIncrement_Shared(c, i) ==
    1 + (CHOOSE a \in { c[j].attempt : j \in Callers } :
             \A j \in Callers : c[j].attempt <= a)

\* the loop counter as call i of c increments it: attempt is a local of the
\* call, line 613
attemptIncrement(c, i) == c[i].attempt + 1

\* time passes
Tick ==
    /\ now < ConcClockBound
    /\ now' = now + 1
    /\ UNCHANGED << policyVars, concFrame, concVars >>

\* call i enters authDoRequest: lines 609-613, the signing, start, timeout and
\* the first test of the loop condition
ConcBegin(i) ==
    /\ calls[i].pc = "idle"
    /\ calls' = [calls EXCEPT ![i] =
                    [@ EXCEPT !.request = authRequest(bucket, @, now),
                              !.start = now,
                              !.timeout = now + TotalAttemptTimeout,
                              !.attempt = 1,
                              !.reads = << now >>,
                              !.pc = IF LoopCond(1) THEN "dispatch" ELSE "done"]]
    /\ UNCHANGED << policyVars, now, concFrame, bucket >>

\* a dispatch of call i returns and, if it failed, the clock is read:
\* lines 614-620
ConcDispatch(i) ==
    /\ calls[i].pc = "dispatch"
    /\ \E o \in ConcOutcomes :
          LET out == ClientDo("GET", o, calls[i].attempt)
          IN  calls' = [calls EXCEPT ![i] =
                  [@ EXCEPT !.resp = out[1],
                            !.err = out[2],
                            !.outs = Append(@, o),
                            !.reads = IF DoSucceeded(out[2]) THEN @ ELSE Append(@, now),
                            !.wake = now + SleepTime,
                            !.pc = IF DoSucceeded(out[2]) THEN "done"
                                   ELSE IF DeadlinePassed(now, calls[i].timeout)
                                        THEN "done"
                                   ELSE "sleep"]]
    /\ UNCHANGED << policyVars, now, concFrame, bucket >>

\* the sleep of call i is over: line 621, then attempt++ and the loop condition
\* of line 613
ConcWake(i) ==
    /\ calls[i].pc = "sleep"
    /\ now >= calls[i].wake
    /\ calls' = [calls EXCEPT ![i] =
                    [@ EXCEPT !.attempt = attemptIncrement(calls, i),
                              !.pc = IF LoopCond(attemptIncrement(calls, i))
                                     THEN "dispatch" ELSE "done"]]
    /\ UNCHANGED << policyVars, now, concFrame, bucket >>

NextConc ==
    \/ Tick
    \/ \E i \in Callers : ConcBegin(i)
    \/ \E i \in Callers : ConcDispatch(i)
    \/ \E i \in Callers : ConcWake(i)

SpecConc == InitConc /\ [][NextConc]_vars

----------------------------------------------------------------------------
(* Properties of concurrent calls *)

\* call c has returned from authDoRequest
ConcDone(c) == c.pc = "done"

\* the deadline of call c, from its own first reading of the clock
OwnDeadline(c) == c.reads[1] + TotalAttemptTimeout

\* dispatch k of call c is one after which authDoRequest returns, judged from
\* the outcome of that dispatch and the call's own reading of the clock after it
EndsCall(c, k) ==
    \/ c.outs[k] # "fail"
    \/ c.reads[k + 1] > OwnDeadline(c)
    \/ k = MaxAttempts

\* the number of dispatches and the outcome of a returned call c are those its
\* own dispatch outcomes and clock readings give
OwnInputsDecide(c) ==
    LET n == Len(c.outs)
    IN  /\ c.request = authRequest(b, BuildRequest("GET"), c.reads[1])
        /\ \A k \in 1..(n - 1) : ~EndsCall(c, k)
        /\ n = 0 => MaxAttempts < 1 /\ c.resp = NilResp /\ c.err = NoErr
        /\ n > 0 => EndsCall(c, n) /\ << c.resp, c.err >> = ClientDo("GET", c.outs[n], n)

\* the readings of call c, counted from its first one
RelativeReads(c) == [k \in 1..Len(c.reads) |-> c.reads[k] - c.reads[1]]

\* the credentials and the retry policy are not written
SharedStateUnchanged == UNCHANGED << bucket, policyVars >>

\* C13: in every interleaving of concurrent calls on one Bucket the credentials
\* and the retry policy stay unchanged, and the number of attempts and the
\* outcome of each call are determined by its own dispatch outcomes and clock
\* readings: two calls with the same outcomes and relative readings end alike.
C13_CallsIndependent ==
    /\ [][SharedStateUnchanged]_vars
    /\ [](bucket = b)
    /\ [](\A i \in Callers : ConcDone(calls[i]) => OwnInputsDecide(calls[i]))
    /\ [](\A i, j \in Callers :
            (/\ ConcDone(calls[i]) /\ ConcDone(calls[j])
             /\ Len(calls[i].outs) <= Len(calls[j].outs)
             /\ \A k \in 1..Len(calls[i].outs) :
                   /\ calls[i].outs[k] = calls[j].outs[k]
                   /\ k + 1 <= Len(calls[i].reads) =>
                         /\ k + 1 <= Len(calls[j].reads)
                         /\ RelativeReads(calls[i])[k + 1] = RelativeReads(calls[j])[k + 1])
            => /\ Len(calls[i].outs) = Len(calls[j].outs)
               /\ calls[i].resp = calls[j].resp
               /\ calls[i].err = calls[j].err)

\* both calls have returned after running interleaved: the first began, then
\* the second, whose first attempt failed before the first attempt of the other
\* did; the first call succeeded on its second attempt, the second did not
C13_Witness ==
    /\ \A i \in Callers : ConcDone(calls[i])
    /\ Len(calls[1].outs) = 2 /\ Len(calls[2].outs) = 2
    /\ calls[1].outs = << "fail", "200" >>
    /\ calls[2].outs = << "fail", "fail" >>
    /\ calls[1].reads[1] < calls[2].reads[1]
    /\ calls[2].reads[2] < calls[1].reads[2]

----------------------------------------------------------------------------
(* Further properties of the call *)

\* dispatch i of the call has been made and ended in a transport error
FailedAttempt(i) == i \in 1..dispatches /\ ScriptAt(i) = "fail"

\* C14: a failed attempt that ends strictly after the deadline, or that is
\* attempt number MaxAttempts, is the last dispatch of the call, and
\* authDoRequest returns its error; a failed attempt that ends no later than
\* the deadline (at the deadline exactly, too) with attempts remaining is
\* followed by another dispatch.
C14_ExhaustionConditions ==
    \A i \in 1..AttemptsBound :
        FailedAttempt(i) =>
            /\ (times[i].to > timeout \/ i = MaxAttempts) =>
                  /\ dispatches = i
                  /\ pc # "dispatch"
                  /\ Returning => err = TransportErr(i)
            /\ (times[i].to <= timeout /\ i < MaxAttempts) =>
                  (dispatches = i => pc \in {"sleep", "dispatch"})

\* a call whose first attempt failed exactly at the deadline and was retried,
\* and whose second attempt failed after the deadline and was the last
C14_Witness ==
    /\ pc = "done"
    /\ MaxAttempts = 3
    /\ dispatches = 2
    /\ FailedAttempt(1) /\ FailedAttempt(2)
    /\ times[1].to = timeout
    /\ times[2].to > timeout
    /\ err = TransportErr(2)

\* C15: authDoRequest sleeps only between two attempts: a call that has
\* returned after n dispatches, the last of which failed, has slept n-1 times,
\* DelayBetweenAttempts each, and not after its final attempt.
C15_SleepsOnlyBetweenAttempts ==
    (Returning /\ FailedAttempt(dispatches)) =>
        /\ sleeps = dispatches - 1
        /\ slept = (dispatches - 1) * DelayBetweenAttempts

----------------------------------------------------------------------------
(* Further properties of the signer *)

\* the values header map h holds under name k, none if it has no such name
ValuesOf(h, k) == IF k \in DOMAIN h THEN h[k] ELSE << >>

\* request i has been signed
Signed(i) == signedAt[i] >= 0

\* C16: authRequest changes only headers: method, URL (query string included),
\* body and content length are as before; every header other than Date, Host
\* and Authorization is as before; Date is as before when the request had one
\* and else is the one value of the signing time; Host and Authorization each
\* get exactly one value appended, the latter "AWS " + Key + ":" + signature.
C16_SignerChangesOnlyHeaders ==
    \A i \in 1..2 :
        Signed(i) =>
            LET before == reqs[i].Header
                after == signed[i].Header
            IN  /\ signed[i].Method = reqs[i].Method
                /\ signed[i].URL = reqs[i].URL
                /\ signed[i].Body = reqs[i].Body
                /\ signed[i].ContentLength = reqs[i].ContentLength
                /\ DOMAIN after = DOMAIN before \cup {sDate, sHost, sAuthorization}
                /\ \A k \in DOMAIN before \ {sDate, sHost, sAuthorization} :
                      after[k] = before[k]
                /\ after[sDate] = IF HeaderGet(before, sDate) # << >> THEN before[sDate]
                                  ELSE Append(ValuesOf(before, sDate),
                                              FormatRFC1123Z(signedAt[i]))
                /\ after[sHost] = Append(ValuesOf(before, sHost),
                                         Join(<< sHTTP, b.Name, b.Base >>))
                /\ Len(after[sAuthorization]) = Len(ValuesOf(before, sAuthorization)) + 1
                /\ Authorization(i) =
                      Join(<< sAWS, b.Key, chColon,
                              HmacSha1Base64(b.Secret,
                                             stringToSign(b, reqs[i], after)) >>)

\* a listing with a query string and a Date of its caller, and a request
\* without a Date, have both been signed
C16_Witness ==
    /\ Signed(1) /\ Signed(2)
    /\ reqs[1].URL.RawQuery # << >>
    /\ HeaderGet(reqs[1].Header, sDate) # << >>
    /\ sDate \notin DOMAIN reqs[2].Header
    /\ signed[1].URL.RawQuery = reqs[1].URL.RawQuery
    /\ signed[2].Header[sDate] = << FormatRFC1123Z(signedAt[2]) >>

\* the two requests differ in their query string and in nothing else, and get
\* the same Date: their caller's, or that of the one time both are signed at
DifferOnlyInQuery ==
    /\ reqs[1].Method = reqs[2].Method
    /\ reqs[1].URL.Host = reqs[2].URL.Host
    /\ reqs[1].URL.Path = reqs[2].URL.Path
    /\ reqs[1].URL.RawQuery # reqs[2].URL.RawQuery
    /\ reqs[1].Header = reqs[2].Header
    /\ reqs[1].Body = reqs[2].Body
    /\ HeaderGet(reqs[1].Header, sDate) # << >> \/ signedAt[1] = signedAt[2]

\* C17: two requests that differ only in their query string get the same
\* canonicalized resource, "/" + bucket name + path, and the same signature.
C17_QueryNotSigned ==
    DifferOnlyInQuery =>
        /\ canonicalizedResource(b, reqs[1].URL) = canonicalizedResource(b, reqs[2].URL)
        /\ canonicalizedResource(b, reqs[1].URL) =
              Join(<< chSlash, b.Name, reqs[1].URL.Path >>)
        /\ BothSigned => Authorization(1) = Authorization(2)

\* two listings with different prefixes and no Date of their caller, signed at
\* the same time, carry the same Authorization value
C17_Witness ==
    /\ BothSigned
    /\ DifferOnlyInQuery
    /\ sDate \notin DOMAIN reqs[1].Header
    /\ reqs[1].URL.RawQuery # << >> /\ reqs[2].URL.RawQuery # << >>
    /\ Authorization(1) = Authorization(2)
    /\ Authorization(1) # << >>

\* the method, URL and headers of a request
SignedPart(r) == [Method |-> r.Method, URL |-> r.URL, Header |-> r.Header]

\* C18: within one call the request is signed once, before the first attempt,
\* and not modified by the executor afterwards: every attempt dispatches the
\* method, URL and headers (Date, Host, Authorization among them) the signing
\* at the start of the call produced, with one Authorization value.
C18_SignedOnce ==
    /\ pc \notin {"idle", "off"} =>
          SignedPart(request) = SignedPart(authRequest(b, BuildRequest(op), start))
    /\ \A i \in 1..Len(sent) :
          /\ SignedPart(sent[i]) = SignedPart(authRequest(b, BuildRequest(op), start))
          /\ sent[i].URL = BuildRequest(op).URL
          /\ Len(sent[i].Header[sAuthorization]) = 1
          /\ Len(sent[i].Header[sHost]) = 1
          /\ sent[i].Header[sDate] = << FormatRFC1123Z(start) >>

\* a call that dispatched three times, the last time later than the first,
\* the same signed request
C18_Witness ==
    /\ pc = "done"
    /\ Len(sent) = 3
    /\ times[3].from > times[1].from
    /\ SignedPart(sent[3]) = SignedPart(sent[1])
    /\ Len(sent[3].Header[sAuthorization]) = 1

\* C19: on a retry of a PUT the same request is dispatched, its body not
\* rebuilt: an attempt made after one that read the body to its end sends an
\* empty body, an attempt made before any did sends the body of the call, and
\* the attempts differ in nothing else.
C19_BodyNotRebuilt ==
    op = "PUT" =>
        \A j \in 1..Len(sent) :
            /\ sent[j] = [sent[1] EXCEPT !.Body = sent[j].Body]
            /\ (\E i \in 1..(j - 1) : times[i].bodyRead) => sent[j].Body = << >>
            /\ (\A i \in 1..(j - 1) : ~times[i].bodyRead) =>
                  sent[j].Body = BuildRequest("PUT").Body
            /\ sent[j].ContentLength = Len(BuildRequest("PUT").Body)

\* a PUT whose first attempt failed after reading the body and whose second
\* attempt sent an empty body
C19_Witness ==
    /\ op = "PUT"
    /\ Len(sent) >= 2
    /\ ScriptAt(1) = "fail"
    /\ times[1].bodyRead
    /\ sent[1].Body # << >>
    /\ sent[2].Body = << >>

====
